---- MODULE Spec2Model ----
(***************************************************************************)
(* json-schema-deref-sync: the reference-resolution engine of             *)
(* src/lib/index.js (deref, derefSchema, getRefSchema, addToHistory,       *)
(* setCurrent, checkLocalCircular) as a state machine.                     *)
(*                                                                         *)
(* JavaScript objects live in a heap (object identity and aliasing are     *)
(* part of the program's behaviour: traverse's update() stores the object  *)
(* it is given, not a copy).  A string is a sequence of one-character      *)
(* strings, so that indexOf, split, substring, concat and toLowerCase are  *)
(* computed as the code computes them.  The key "$ref" is written as the   *)
(* one-character key <<"$">>.                                               *)
(***************************************************************************)
EXTENDS Integers, Sequences, FiniteSets, TLC

(***************************************************************************)
(* Strings                                                                 *)
(***************************************************************************)
RefKey == <<"$">>

\* String.prototype.indexOf(c) for a one-character c, 1-based; 0 when absent
\* (JavaScript's -1).
IndexOf(s, c) ==
  IF \E i \in 1..Len(s) : s[i] = c
  THEN CHOOSE i \in 1..Len(s) : s[i] = c /\ \A j \in 1..(i - 1) : s[j] # c
  ELSE 0

\* s.indexOf(t) >= 0 for a string t.
Contains(s, t) ==
  \E i \in 0..(Len(s) - Len(t)) : \A j \in 1..Len(t) : s[i + j] = t[j]

\* String.prototype.substring(from) with a 0-based from.
SubstringFrom(s, from) == SubSeq(s, from + 1, Len(s))

\* String.prototype.split(c) for a one-character c.
RECURSIVE Split(_, _)
Split(s, c) ==
  LET i == IndexOf(s, c)
  IN  IF i = 0 THEN <<s>>
      ELSE <<SubSeq(s, 1, i - 1)>> \o Split(SubSeq(s, i + 1, Len(s)), c)

\* Array.prototype.join(c).
RECURSIVE Join(_, _)
Join(parts, c) ==
  IF Len(parts) = 0 THEN <<>>
  ELSE IF Len(parts) = 1 THEN parts[1]
  ELSE parts[1] \o <<c>> \o Join(Tail(parts), c)

LowerChar(c) == IF c = "A" THEN "a" ELSE IF c = "F" THEN "f" ELSE c

\* String.prototype.toLowerCase.
ToLower(s) == [i \in 1..Len(s) |-> LowerChar(s[i])]

(***************************************************************************)
(* Values.  A JavaScript value is a scalar, undefined, an Error, or a      *)
(* reference to a heap object; a heap object is its ordered list of        *)
(* entries [k |-> key, v |-> value].  A tree is a document given by value  *)
(* (what JSON text denotes): its objects carry their entries.              *)
(***************************************************************************)
Undef == [t |-> "undef"]
Null == [t |-> "null"]
Num(n) == [t |-> "num", n |-> n]
Bool(b) == [t |-> "bool", b |-> b]
Str(s) == [t |-> "str", s |-> s]
Obj(id) == [t |-> "obj", id |-> id]
\* new Error(message): m is the fixed text of the message, r the reference
\* strings interpolated into it.
Err(m, r) == [t |-> "err", m |-> m, r |-> r]
Tree(e) == [t |-> "tree", e |-> e]
Ent(k, v) == [k |-> k, v |-> v]

\* JavaScript truthiness, as used by `if (loaderValue)`, `if (refNewVal)`,
\* `if (cache[fullRefFilePath])`.
Truthy(v) ==
  CASE v.t = "undef" -> FALSE
    [] v.t = "null" -> FALSE
    [] v.t = "num" -> v.n # 0
    [] v.t = "bool" -> v.b
    [] v.t = "str" -> Len(v.s) > 0
    [] OTHER -> TRUE

HasKey(o, k) == \E i \in 1..Len(o) : o[i].k = k

\* o[k]: the value under key k of an entry list, undefined when absent.
Get(o, k) ==
  IF HasKey(o, k) THEN o[CHOOSE i \in 1..Len(o) : o[i].k = k].v ELSE Undef

\* o[k] = v on an entry list: an existing key keeps its place.
Put(o, k, v) ==
  IF HasKey(o, k)
  THEN [i \in 1..Len(o) |-> IF o[i].k = k THEN Ent(k, v) ELSE o[i]]
  ELSE Append(o, Ent(k, v))

\* Object.keys(o).
Keys(o) == [i \in 1..Len(o) |-> o[i].k]

\* node[k] for any JavaScript value found in a document.
Prop(h, v, k) == IF v.t = "obj" THEN Get(h[v.id], k) ELSE Undef

\* typeof node.$ref === 'string' (guarded by !_.isNull(node)).
IsRefNode(h, v) == Prop(h, v, RefKey).t = "str"

(***************************************************************************)
(* The heap                                                                *)
(***************************************************************************)
\* Allocates the objects of a tree (JSON.parse; the fresh objects of a
\* clone): [h |-> the heap after, v |-> the value built].
RECURSIVE Build(_, _)
RECURSIVE BuildEntries(_, _, _, _)
BuildEntries(h, id, entries, i) ==
  IF i > Len(entries) THEN h
  ELSE LET r == Build(h, entries[i].v)
       IN  BuildEntries([r.h EXCEPT ![id] = Append(@, Ent(entries[i].k, r.v))],
                        id, entries, i + 1)

Build(h, tree) ==
  IF tree.t # "tree" THEN [h |-> h, v |-> tree]
  ELSE LET id == Len(h) + 1
       IN  [h |-> BuildEntries(Append(h, <<>>), id, tree.e, 1), v |-> Obj(id)]

\* The document a value denotes, objects unfolded by value.  An object graph
\* that is cyclic has no finite unfolding: below `fuel` levels it is cut
\* with the marker [t |-> "cyclic"].
RECURSIVE ToTree(_, _, _)
ToTree(h, v, fuel) ==
  IF v.t # "obj" THEN v
  ELSE IF fuel = 0 THEN [t |-> "cyclic"]
  ELSE Tree([i \in 1..Len(h[v.id]) |->
               Ent(h[v.id][i].k, ToTree(h, h[v.id][i].v, fuel - 1))])

\* A path of distinct objects is at most Len(h) long.
Doc(h, v) == ToTree(h, v, Len(h) + 1)

RECURSIVE TreeHas(_, _)
\* Some node of the tree satisfies: it is cut as cyclic.
TreeHas(tree, tag) ==
  \/ tree.t = tag
  \/ /\ tree.t = "tree"
     /\ \E i \in 1..Len(tree.e) : TreeHas(tree.e[i].v, tag)

\* Some object node of the tree has a string-valued $ref field.
RECURSIVE HasRef(_)
HasRef(tree) ==
  /\ tree.t = "tree"
  /\ \/ Get(tree.e, RefKey).t = "str"
     \/ \E i \in 1..Len(tree.e) : HasRef(tree.e[i].v)

\* A clone that copies nothing: the working document is the caller's.
cloneAlias(h, v) == [h |-> h, v |-> v]

\* clone(schema) of the `clone` package: a deep copy in fresh objects.
clone(h, v) == Build(h, Doc(h, v))

(***************************************************************************)
(* path (Node's path module) on path strings                               *)
(***************************************************************************)
\* utils.isAbsolute / path.isAbsolute.
isAbsolute(p) == Len(p) > 0 /\ p[1] = "/"

RECURSIVE Normalize(_, _)
\* Folds the segments of a relative path onto a list of directory names.
Normalize(acc, segs) ==
  IF Len(segs) = 0 THEN acc
  ELSE LET s == Head(segs)
       IN  IF s = <<>> \/ s = <<".">> THEN Normalize(acc, Tail(segs))
           ELSE IF s = <<".", ".">>
                THEN Normalize(IF Len(acc) = 0 THEN acc
                               ELSE SubSeq(acc, 1, Len(acc) - 1), Tail(segs))
           ELSE Normalize(Append(acc, s), Tail(segs))

\* path.resolve(base, p) for an absolute base.
pathResolve(base, p) ==
  LET segs == IF isAbsolute(p) THEN Normalize(<<>>, Split(p, "/"))
              ELSE Normalize(Normalize(<<>>, Split(base, "/")), Split(p, "/"))
  IN  <<"/">> \o Join(segs, "/")

\* The last index of "/" in p, 0 when there is none.
LastSlash(p) ==
  IF \E i \in 1..Len(p) : p[i] = "/"
  THEN CHOOSE i \in 1..Len(p) : p[i] = "/" /\ \A j \in (i + 1)..Len(p) : p[j] # "/"
  ELSE 0

\* path.dirname(p).
pathDirname(p) ==
  LET i == LastSlash(p)
  IN  IF i = 0 THEN <<".">> ELSE IF i = 1 THEN <<"/">> ELSE SubSeq(p, 1, i - 1)

(***************************************************************************)
(* ./utils and ./loaders/file: the collaborators of index.js               *)
(***************************************************************************)
\* utils.getRefValue(node): the string under $ref.
getRefValue(h, node) == Prop(h, node, RefKey).s

\* utils.getRefType(node), from the reference string: local when it starts
\* with '#', unsupported ("web") when it names a URL scheme, else file.
getRefType(refVal) ==
  IF Len(refVal) > 0 /\ refVal[1] = "#" THEN "local"
  ELSE IF IndexOf(refVal, ":") > 0 THEN "web"
  ELSE "file"

\* utils.getRefFilePath(refVal): the target, before the first '#'.
getRefFilePath(refVal) ==
  LET i == IndexOf(refVal, "#")
  IN  IF i > 1 THEN SubSeq(refVal, 1, i - 1) ELSE refVal

RECURSIVE WalkPath(_, _, _)
WalkPath(h, v, segs) ==
  IF Len(segs) = 0 THEN v
  ELSE IF v.t = "obj" /\ HasKey(h[v.id], Head(segs))
       THEN WalkPath(h, Get(h[v.id], Head(segs)), Tail(segs))
  ELSE Undef

\* utils.getRefPathValue(schema, refPath): the pointer is split on '/', a
\* leading empty segment is discarded, and the document is walked one
\* segment at a time; undefined when a segment is absent or applied to a
\* scalar.
getRefPathValue(h, schema, refPath) ==
  LET i == IndexOf(refPath, "#")
      p == IF i > 0 THEN SubstringFrom(refPath, i) ELSE refPath
      segs == Split(p, "/")
  IN  WalkPath(h, schema, IF Head(segs) = <<>> THEN Tail(segs) ELSE segs)

\* loaders.file(refVal, options): the document stored at the target,
\* resolved against options.baseFolder, parsed into fresh objects; undefined
\* when there is none.
fileLoader(h, disk, refVal, baseFolder) ==
  LET full == pathResolve(baseFolder, getRefFilePath(refVal))
  IN  IF full \in DOMAIN disk THEN Build(h, disk[full]) ELSE [h |-> h, v |-> Undef]

(***************************************************************************)
(* checkLocalCircular                                                      *)
(***************************************************************************)
\* traverse(schema).reduce(...): the {from, to} of every local reference
\* node, in traversal order (a node before its children, children in key
\* order).  `path` is this.path.
RECURSIVE Locals(_, _, _)
RECURSIVE LocalsOfKids(_, _, _, _)
LocalsOfKids(h, v, path, i) ==
  IF i > Len(h[v.id]) THEN <<>>
  ELSE Locals(h, h[v.id][i].v, Append(path, h[v.id][i].k))
         \o LocalsOfKids(h, v, path, i + 1)

Locals(h, v, path) ==
  IF v.t # "obj" THEN <<>>
  ELSE (IF IsRefNode(h, v) /\ getRefType(getRefValue(h, v)) = "local"
        THEN <<[from |-> Join(path, "/"), to |-> getRefValue(h, v)]>>
        ELSE <<>>)
       \o LocalsOfKids(h, v, path, 1)

\* dag-map: the vertices from which `S` is reached along the edges, S
\* included (visit() follows vertex.incoming).
RECURSIVE Ancestors(_, _)
Ancestors(edges, S) ==
  LET S2 == S \cup {e[1] : e \in {d \in edges : d[2] \in S}}
  IN  IF S2 = S THEN S ELSE Ancestors(edges, S2)

\* dag.addEdge(from, to) throws: the edge would close a cycle.
dagThrows(edges, from, to) ==
  /\ from # to
  /\ <<from, to>> \notin edges
  /\ to \in Ancestors(edges, {from})

\* dag.addEdge(from, to) when it does not throw.
dagAddEdge(edges, from, to) ==
  IF from = to THEN edges ELSE edges \cup {<<from, to>>}

\* The callback of _.find(locals, ...) on elem: it returns elem when addEdge
\* throws or when dest occurs in from.
localOffends(edges, elem) ==
  LET from == elem.from \o <<"/">>
      dest == SubstringFrom(elem.to, 2) \o <<"/">>
  IN  dagThrows(edges, from, dest) \/ Contains(from, dest)

RECURSIVE findCheck(_, _, _)
\* _.find(locals, ...): the index of the first offending elem, 0 when none.
findCheck(locals, i, edges) ==
  IF i > Len(locals) THEN 0
  ELSE IF localOffends(edges, locals[i]) THEN i
  ELSE findCheck(locals, i + 1,
                 dagAddEdge(edges, locals[i].from \o <<"/">>,
                            SubstringFrom(locals[i].to, 2) \o <<"/">>))

\* checkLocalCircular(schema): an Error, or undefined.
checkLocalCircular(h, schema) ==
  LET locals == Locals(h, schema, <<>>)
      check == findCheck(locals, 1, {})
  IN  IF Len(locals) = 0 THEN Undef
      ELSE IF \E i \in 1..Len(locals) : locals[i].to = <<"#">>
           THEN Err("Circular self reference", <<>>)
      ELSE IF check # 0
           THEN Err("Circular self reference from",
                    <<locals[check].from, locals[check].to>>)
      ELSE Undef

(***************************************************************************)
(* addToHistory, setCurrent                                                *)
(***************************************************************************)
\* The marker addToHistory computes (dest, lower-cased).
historyDest(s, type, value) ==
  ToLower(IF type = "file" THEN getRefFilePath(value)
          ELSE s.current \o <<":">> \o value)

\* A history that refuses nothing.
historyNeverRefuses(s, type, value) == TRUE

\* addToHistory(state, type, value): whether it returns true.
addToHistoryOk(s, type, value) ==
  /\ ~(type # "file" /\ value = <<"#">>)
  /\ \A i \in 1..Len(s.history) : s.history[i] # historyDest(s, type, value)

\* state.history after addToHistory returned true.  (dest is never empty:
\* a reference string is not.)
addToHistory(s, type, value) ==
  [s EXCEPT !.history = Append(@, historyDest(s, type, value))]

\* setCurrent(state, type, value).
setCurrent(s, type, value) ==
  IF type = "file" /\ Len(getRefFilePath(value)) > 0
  THEN [s EXCEPT !.current = getRefFilePath(value)]
  ELSE s

(***************************************************************************)
(* Garbage: objects no longer reachable are dropped and the rest           *)
(* renumbered in order of discovery (object identity is kept, names are    *)
(* not).                                                                   *)
(***************************************************************************)
InSeq(q, x) == \E i \in 1..Len(q) : q[i] = x

PosIn(q, x) == CHOOSE i \in 1..Len(q) : q[i] = x

Values(o) == [i \in 1..Len(o) |-> o[i].v]

RECURSIVE Reach(_, _, _)
Reach(h, work, seen) ==
  IF Len(work) = 0 THEN seen
  ELSE LET v == Head(work)
       IN  IF v.t # "obj" \/ InSeq(seen, v.id) THEN Reach(h, Tail(work), seen)
           ELSE Reach(h, Values(h[v.id]) \o Tail(work), Append(seen, v.id))

Relabel(order, v) == IF v.t = "obj" THEN Obj(PosIn(order, v.id)) ELSE v

RelabelEntries(order, o) == [j \in 1..Len(o) |-> Ent(o[j].k, Relabel(order, o[j].v))]

\* The heap restricted to what the values `roots` reach.
CompactHeap(h, roots) ==
  LET order == Reach(h, roots, <<>>)
  IN  [i \in 1..Len(order) |-> RelabelEntries(order, h[order[i]])]

\* An entry list whose values are renamed as CompactHeap renames them.
CompactEntries(h, roots, o) == RelabelEntries(Reach(h, roots, <<>>), o)

(***************************************************************************)
(* Inputs: the documents a caller passes and the files on disk             *)
(***************************************************************************)
A == <<"a">>
B == <<"b">>
X == <<"x">>
Z == <<"z">>

RefNode(r) == Tree(<<Ent(RefKey, Str(r))>>)

LocalRefs ==
  { <<"#">>, <<"#", "/", "a">>, <<"#", "/", "b">>,
    <<"#", "/", "b", "/", "x">>, <<"#", "/", "z">> }

FileRefs ==
  { <<"f">>, <<"f", "#", "/", "b">>, <<"g">>, <<"p">>, <<"s">>, <<"t">>,
    <<"m">>, <<"d", "/", "f">>, <<"n">>, <<"c">> }

RefStrings == LocalRefs \cup FileRefs

Leaves == {Num(0), Num(1)} \cup {RefNode(r) : r \in RefStrings}

Nodes == Leaves \cup {Tree(<<Ent(X, v)>>) : v \in Leaves}

\* The documents handed to deref: {a: ., b: .} over Nodes, and reference
\* nodes at the root.
Docs ==
  {Tree(<<Ent(A, v), Ent(B, w)>>) : v \in Nodes, w \in Nodes}
    \cup {Tree(<<Ent(RefKey, Str(r)), Ent(A, v)>>) :
            r \in RefStrings, v \in {Num(1), Tree(<<Ent(X, Num(1))>>)}}

\* process.cwd(), the default of options.baseFolder.
Cwd == <<"/">>

\* The files on disk, by absolute path.  n does not exist.
Disk(zval) ==
  (<<"/", "f">> :> Tree(<<Ent(Z, Num(zval)), Ent(B, RefNode(<<"#", "/", "z">>))>>))
  @@ (<<"/", "g">> :> Tree(<<Ent(A, RefNode(<<"f", "#", "/", "b">>))>>))
  @@ (<<"/", "p">> :> Tree(<<Ent(A, RefNode(<<"q">>))>>))
  @@ (<<"/", "q">> :> Tree(<<Ent(A, RefNode(<<"p">>))>>))
  @@ (<<"/", "s">> :> Tree(<<Ent(A, RefNode(<<"s">>))>>))
  @@ (<<"/", "t">> :> Tree(<<Ent(A, RefNode(<<"/", "t">>))>>))
  @@ (<<"/", "m">> :> Tree(<<Ent(A, RefNode(<<"#", "/", "b">>))>>))
  @@ (<<"/", "d", "/", "f">> :> Tree(<<Ent(A, RefNode(<<"g">>))>>))
  @@ (<<"/", "d", "/", "g">> :> Tree(<<Ent(A, RefNode(<<"d", "/", "f">>))>>))
  @@ (<<"/", "d", "/", "d", "/", "f">> :> Tree(<<Ent(A, Num(1))>>))
  @@ (<<"/", "c">> :> Tree(<<Ent(A, RefNode(<<"#">>))>>))

(***************************************************************************)
(* State                                                                   *)
(***************************************************************************)
VARIABLES
  heap,    \* the JavaScript objects, by identity
  cache,   \* the module-level `cache` object: entries path -> value
  st,      \* deref's `state`
  opts,    \* deref's `options`
  stack,   \* the call stack: derefSchema calls and traverse's walker calls
  pc,      \* "idle": no call; "enter", "run": inside deref; "done": it returned
  ret,     \* what deref returned
  disk,    \* the files the loader reads
  input,   \* the caller's document (deref's `schema` argument)
  given,   \* the caller's document as it was when it was passed in
  loads,   \* the absolute paths the loader was invoked on in this call
  stale,   \* whether an earlier call had left entries in the cache
  steps    \* how many steps the running call has taken

vars == <<heap, cache, st, opts, stack, pc, ret, disk, input, given, loads,
          stale, steps>>

\* md5(JSON.stringify(schema)): 32 lower-case hex digits, written as the
\* one-character string "0": it holds none of '#', '/', ':', is its own
\* lower case and is the name of no file, and one call has one root
\* document.
md5(tree) == <<"0">>

\* The `state` object literal of deref.
NewState(cwd, current) ==
  [circular |-> FALSE, circularRefs |-> <<>>, cwd |-> cwd, missing |-> <<>>,
   history |-> <<>>, current |-> current, error |-> Undef]

\* A call of derefSchema(schema, options, state).  refVal, full and oldBase
\* are the locals of the getRefSchema call that made it (empty for the call
\* made by deref).
DerefFrame(schema, refVal, full, oldBase) ==
  [kind |-> "deref", phase |-> "enter", schema |-> schema, val |-> Undef,
   refVal |-> refVal, full |-> full, oldBase |-> oldBase]

\* A call of traverse's walker(node_): `node` is state.node, `orig` is
\* node_, `circ` is state.circular, `i` the index of the next key.
WalkFrame(node, key, isRoot, circ) ==
  [kind |-> "walk", phase |-> "cb", node |-> node, orig |-> node, key |-> key,
   isRoot |-> isRoot, circ |-> circ, i |-> 1]

Top == stack[Len(stack)]

\* The index of the derefSchema call whose traversal is running.
CurDeref(stk) ==
  CHOOSE i \in 1..Len(stk) :
    stk[i].kind = "deref" /\ \A j \in (i + 1)..Len(stk) : stk[j].kind = "walk"

\* traverse's updateState: node_ is the node_ of one of `parents`.
isCircular(stk, child) ==
  /\ child.t = "obj"
  /\ \E j \in (CurDeref(stk) + 1)..Len(stk) : stk[j].orig = child

\* this.update(x) in the walker call on top of stk:
\* state.parent.node[state.key] = x unless the node is the root.
updateHeap(h, stk, x) ==
  LET n == Len(stk)
  IN  IF stk[n].isRoot THEN h
      ELSE [h EXCEPT ![stk[n - 1].node.id] = Put(@, stk[n].key, x)]

RemoveFirst(q, x) ==
  IF InSeq(q, x)
  THEN LET i == CHOOSE i \in 1..Len(q) : q[i] = x /\ \A j \in 1..(i - 1) : q[j] # x
       IN  SubSeq(q, 1, i - 1) \o SubSeq(q, i + 1, Len(q))
  ELSE q

\* state.missing after a reference that was not resolved.
missingPush(missing, refVal) ==
  IF InSeq(missing, refVal) THEN missing ELSE Append(missing, refVal)

\* state.missing after a reference that was resolved.
missingSplice(missing, refVal) == RemoveFirst(missing, refVal)

\* state.error after a reference that was not resolved.
missingError(s, o, refVal) ==
  IF o.failOnMissing THEN Err("Missing $ref", <<refVal>>) ELSE s.error

\* The callback of derefSchema from state.history.pop() on, given what
\* getRefSchema returned: the heap, the state and the stack after it.
afterGetRefSchema(h, s, o, stk, refVal, newValue) ==
  LET n == Len(stk)
      s1 == [s EXCEPT !.history = SubSeq(@, 1, Len(@) - 1)]
  IN  IF newValue.t = "undef"
      THEN [h |-> updateHeap(h, stk, stk[n].node),
            s |-> [s1 EXCEPT !.missing = missingPush(@, refVal),
                             !.error = missingError(s1, o, refVal)],
            stk |-> [stk EXCEPT ![n].phase =
                       IF o.failOnMissing THEN "end" ELSE "kids"]]
      ELSE [h |-> updateHeap(h, stk, newValue),
            s |-> [s1 EXCEPT !.missing = missingSplice(@, refVal)],
            stk |-> [stk EXCEPT ![n].node = newValue, ![n].phase = "kids"]]

\* A cache that stores nothing.
cachePutNever(c, full, loaderValue) == c

\* cache after getRefSchema has its loaderValue.
cachePut(c, full, loaderValue) ==
  IF Truthy(loaderValue) /\ Len(full) > 0 /\ ~Truthy(Get(c, full))
  THEN Put(c, full, loaderValue)
  ELSE c

\* newVal of getRefSchema, from its loaderValue.
refNewVal(h, refVal, loaderValue) ==
  IF ~Truthy(loaderValue) THEN Undef
  ELSE IF IndexOf(refVal, "#") > 0
       THEN LET r == getRefPathValue(h, loaderValue, Split(refVal, "#")[2])
            IN  IF Truthy(r) THEN r ELSE Undef
  ELSE loaderValue

\* fullRefFilePath of getRefSchema.
fullRefFilePath(s, refVal) ==
  LET filePath == getRefFilePath(refVal)
  IN  IF isAbsolute(filePath) THEN filePath ELSE pathResolve(s.cwd, filePath)

\* The directory getRefSchema moves state.cwd to, empty when it stays.
refDirname(refVal) ==
  LET d == pathDirname(getRefFilePath(refVal))
  IN  IF d = <<".">> THEN <<>> ELSE d

\* A deref that keeps the cache of earlier calls.
keepCache(c) == c

\* `cache = {}` in deref.
clearCache(c) == <<>>

\* A deref that returns state.error whether or not there is one.
derefReturnError(val, s) == IF val.t # "err" THEN s.error ELSE val

\* What deref returns, from what derefSchema returned.
derefReturn(val, s) ==
  IF val.t # "err" /\ Truthy(s.error) THEN s.error ELSE val

(***************************************************************************)
(* traverse(schema).forEach(cb): the walker                                *)
(***************************************************************************)
\* walker has children left to walk: state.node is an object that is not
\* circular, and keys are left.
HasKids(h, f) ==
  /\ f.phase = "kids"
  /\ f.node.t = "obj"
  /\ ~f.circ
  /\ f.i <= Len(h[f.node.id])

\* The walker runs on from the top call of stk to the next call of the
\* callback on a reference node (on every other node the callback does
\* nothing), or to the end of the traversal: a call whose callback is done
\* calls walker on its next child, state.node[key], and returns when none is
\* left; the call on the root returns state.node to derefSchema, which
\* returns it.
RECURSIVE advance(_, _)
advance(h, stk) ==
  LET n == Len(stk)
      f == stk[n]
  IN  IF f.kind = "deref" THEN stk
      ELSE IF f.phase = "cb"
           THEN IF IsRefNode(h, f.node) THEN stk
                ELSE advance(h, [stk EXCEPT ![n].phase = "kids"])
      ELSE IF HasKids(h, f)
           THEN LET e == h[f.node.id][f.i]
                IN  advance(h, Append([stk EXCEPT ![n].i = @ + 1],
                                      WalkFrame(e.v, e.k, FALSE, isCircular(stk, e.v))))
      ELSE IF f.isRoot
           THEN [SubSeq(stk, 1, n - 1) EXCEPT ![n - 1].phase = "ret",
                                              ![n - 1].val = f.node]
      ELSE advance(h, SubSeq(stk, 1, n - 1))

\* The number of steps (calls of the callback on a reference node, calls
\* of derefSchema and returns) that one call of deref is followed for.
MaxSteps == 24

(***************************************************************************)
(* Actions                                                                 *)
(***************************************************************************)
IdleState == NewState(Cwd, <<>>)

IdleOpts == [baseFolder |-> Cwd, failOnMissing |-> FALSE]

Init ==
  /\ heap = <<>>
  /\ cache = <<>>
  /\ st = IdleState
  /\ opts = IdleOpts
  /\ stack = <<>>
  /\ pc = "idle"
  /\ ret = Undef
  /\ disk = Disk(1)
  /\ input = Undef
  /\ given = Undef
  /\ loads = <<>>
  /\ stale = FALSE
  /\ steps = 0

\* deref is entered.  Of its prologue, `cache = {}` reads nothing and writes
\* nothing but the cache, so it is taken first, before the arguments are
\* looked at.  What the reset leaves unreachable is dropped from the heap.
Enter ==
  /\ pc = "idle"
  /\ pc' = "enter"
  /\ heap' = CompactHeap(heap, Values(clearCache(cache)))
  /\ cache' = CompactEntries(heap, Values(clearCache(cache)), clearCache(cache))
  /\ stale' = (Len(cache) > 0)
  /\ UNCHANGED <<st, opts, stack, ret, disk, input, given, loads, steps>>

\* deref(schema, options), up to its call of derefSchema: the options get
\* their defaults, the state is made, the schema is cloned.
Deref(tree, fom) ==
  /\ pc = "enter"
  /\ LET b1 == Build(heap, tree)
         b2 == clone(b1.h, b1.v)
     IN  /\ heap' = b2.h
         /\ input' = b1.v
         /\ stack' = <<DerefFrame(b2.v, <<>>, <<>>, <<>>)>>
  /\ given' = tree
  /\ st' = NewState(Cwd, md5(tree))
  /\ opts' = [baseFolder |-> Cwd, failOnMissing |-> fom]
  /\ pc' = "run"
  /\ ret' = Undef
  /\ loads' = <<>>
  /\ steps' = 0
  /\ UNCHANGED <<cache, disk, stale>>

\* What derefSchema returns before it traverses, undefined when it goes on
\* to traverse.
derefSchemaEarly(h, s, schema) ==
  LET check == checkLocalCircular(h, schema)
  IN  IF check.t = "err" THEN check
      ELSE IF s.circular THEN Err("circular references found", s.circularRefs)
      ELSE IF Truthy(s.error) THEN s.error
      ELSE Undef

\* derefSchema returns an Error without traversing.
DerefSchemaFail ==
  /\ steps < MaxSteps
  /\ steps' = steps + 1
  /\ pc = "run" /\ Top.kind = "deref" /\ Top.phase = "enter"
  /\ derefSchemaEarly(heap, st, Top.schema).t = "err"
  /\ stack' = [stack EXCEPT ![Len(stack)].phase = "ret",
                            ![Len(stack)].val = derefSchemaEarly(heap, st, Top.schema)]
  /\ UNCHANGED <<heap, cache, st, opts, pc, ret, disk, input, given, loads, stale>>

\* derefSchema starts traverse(schema).forEach: walker is called on the root.
DerefSchemaWalk ==
  /\ steps < MaxSteps
  /\ steps' = steps + 1
  /\ pc = "run" /\ Top.kind = "deref" /\ Top.phase = "enter"
  /\ derefSchemaEarly(heap, st, Top.schema).t # "err"
  /\ stack' = advance(heap, Append([stack EXCEPT ![Len(stack)].phase = "walk"],
                                   WalkFrame(Top.schema, <<>>, TRUE, FALSE)))
  /\ UNCHANGED <<heap, cache, st, opts, pc, ret, disk, input, given, loads, stale>>

\* The walker is in the callback, on a reference node.
InCallback == pc = "run" /\ Top.kind = "walk" /\ Top.phase = "cb"

CbRefVal == getRefValue(heap, Top.node)

CbRefType == getRefType(CbRefVal)

CbSchema == stack[CurDeref(stack)].schema

\* state after addToHistory returned true and setCurrent ran.
CbState == setCurrent(addToHistory(st, CbRefType, CbRefVal), CbRefType, CbRefVal)

\* The callback on a reference node that addToHistory refuses.
VisitCircular ==
  /\ steps < MaxSteps
  /\ steps' = steps + 1
  /\ InCallback
  /\ ~addToHistoryOk(st, CbRefType, CbRefVal)
  /\ st' = [st EXCEPT !.circular = TRUE,
                      !.circularRefs = Append(@, CbRefVal),
                      !.error = Err("circular references found",
                                    Append(st.circularRefs, CbRefVal))]
  /\ heap' = updateHeap(heap, stack, Top.node)
  /\ stack' = advance(heap', [stack EXCEPT ![Len(stack)].phase = "end"])
  /\ UNCHANGED <<cache, opts, pc, ret, disk, input, given, loads, stale>>

\* The callback on a reference node no loader serves: getRefSchema looks a
\* local reference up in `schema` and returns undefined for any other.
VisitLocal ==
  /\ steps < MaxSteps
  /\ steps' = steps + 1
  /\ InCallback
  /\ addToHistoryOk(st, CbRefType, CbRefVal)
  /\ CbRefType # "file"
  /\ LET newValue == IF CbRefType = "local"
                     THEN getRefPathValue(heap, CbSchema, CbRefVal)
                     ELSE Undef
         r == afterGetRefSchema(heap, CbState, opts, stack, CbRefVal, newValue)
     IN  /\ heap' = r.h
         /\ st' = r.s
         /\ stack' = advance(r.h, r.stk)
  /\ UNCHANGED <<cache, opts, pc, ret, disk, input, given, loads, stale>>

\* The callback on a file reference whose document is in the cache.
VisitCached ==
  /\ steps < MaxSteps
  /\ steps' = steps + 1
  /\ InCallback
  /\ addToHistoryOk(st, CbRefType, CbRefVal)
  /\ CbRefType = "file"
  /\ Truthy(Get(cache, fullRefFilePath(st, CbRefVal)))
  /\ LET full == fullRefFilePath(st, CbRefVal)
         loaderValue == Get(cache, full)
         r == afterGetRefSchema(heap, CbState, opts, stack, CbRefVal,
                                refNewVal(heap, CbRefVal, loaderValue))
     IN  /\ heap' = r.h
         /\ st' = r.s
         /\ stack' = advance(r.h, r.stk)
         /\ cache' = cachePut(cache, full, loaderValue)
  /\ UNCHANGED <<opts, pc, ret, disk, input, given, loads, stale>>

\* The loader's answer to loaders.file(refVal, options).
Loaded == fileLoader(heap, disk, CbRefVal, opts.baseFolder)

\* The absolute path the loader is invoked on.
LoadedPath == pathResolve(opts.baseFolder, getRefFilePath(CbRefVal))

\* The callback on a file reference not in the cache, for which the loader
\* returns nothing.
VisitNotFound ==
  /\ steps < MaxSteps
  /\ steps' = steps + 1
  /\ InCallback
  /\ addToHistoryOk(st, CbRefType, CbRefVal)
  /\ CbRefType = "file"
  /\ ~Truthy(Get(cache, fullRefFilePath(st, CbRefVal)))
  /\ ~Truthy(Loaded.v)
  /\ LET r == afterGetRefSchema(heap, CbState, opts, stack, CbRefVal, Undef)
     IN  /\ heap' = r.h
         /\ st' = r.s
         /\ stack' = advance(r.h, r.stk)
  /\ loads' = Append(loads, LoadedPath)
  /\ UNCHANGED <<cache, opts, pc, ret, disk, input, given, stale>>

\* The callback on a file reference not in the cache, which the loader
\* loads: the base folder moves to the file's directory and getRefSchema
\* calls derefSchema on the loaded document.
VisitLoad ==
  /\ steps < MaxSteps
  /\ steps' = steps + 1
  /\ InCallback
  /\ addToHistoryOk(st, CbRefType, CbRefVal)
  /\ CbRefType = "file"
  /\ ~Truthy(Get(cache, fullRefFilePath(st, CbRefVal)))
  /\ Truthy(Loaded.v)
  /\ LET dirname == refDirname(CbRefVal)
         moved == Len(dirname) > 0
         newBase == pathResolve(st.cwd, dirname)
     IN  /\ st' = IF moved THEN [CbState EXCEPT !.cwd = newBase] ELSE CbState
         /\ opts' = IF moved THEN [opts EXCEPT !.baseFolder = newBase] ELSE opts
         /\ stack' = Append([stack EXCEPT ![Len(stack)].phase = "wait"],
                            DerefFrame(Loaded.v, CbRefVal,
                                       fullRefFilePath(st, CbRefVal),
                                       IF moved THEN st.cwd ELSE <<>>))
  /\ heap' = Loaded.h
  /\ loads' = Append(loads, LoadedPath)
  /\ UNCHANGED <<cache, pc, ret, disk, input, given, stale>>

\* derefSchema returns to getRefSchema: the base folder is reset, the value
\* is cached, the pointer is followed, and the callback finishes.
LoadReturn ==
  /\ steps < MaxSteps
  /\ steps' = steps + 1
  /\ pc = "run" /\ Top.kind = "deref" /\ Top.phase = "ret"
  /\ Len(stack) > 1
  /\ LET below == SubSeq(stack, 1, Len(stack) - 1)
         back == Len(Top.oldBase) > 0
         s1 == IF back THEN [st EXCEPT !.cwd = Top.oldBase] ELSE st
         r == afterGetRefSchema(heap, s1, opts, below, Top.refVal,
                                refNewVal(heap, Top.refVal, Top.val))
     IN  /\ heap' = r.h
         /\ st' = r.s
         /\ stack' = advance(r.h, r.stk)
         /\ opts' = IF back THEN [opts EXCEPT !.baseFolder = Top.oldBase] ELSE opts
         /\ cache' = cachePut(cache, Top.full, Top.val)
  /\ UNCHANGED <<pc, ret, disk, input, given, loads, stale>>

\* derefSchema returns to deref, which returns.
Return ==
  /\ steps < MaxSteps
  /\ steps' = steps + 1
  /\ pc = "run" /\ Top.kind = "deref" /\ Top.phase = "ret"
  /\ Len(stack) = 1
  /\ ret' = derefReturn(Top.val, st)
  /\ pc' = "done"
  /\ stack' = <<>>
  /\ UNCHANGED <<heap, cache, st, opts, disk, input, given, loads, stale>>

\* The caller drops the result; the cache stays.
Release ==
  /\ pc = "done"
  /\ pc' = "idle"
  /\ heap' = CompactHeap(heap, Values(cache))
  /\ cache' = CompactEntries(heap, Values(cache), cache)
  /\ st' = IdleState
  /\ opts' = IdleOpts
  /\ ret' = Undef
  /\ input' = Undef
  /\ given' = Undef
  /\ loads' = <<>>
  /\ stale' = FALSE
  /\ steps' = 0
  /\ UNCHANGED <<stack, disk>>

\* Between two calls the file f is rewritten.
Touch ==
  /\ pc = "idle"
  /\ Len(cache) > 0
  /\ disk = Disk(1)
  /\ disk' = Disk(0)
  /\ UNCHANGED <<heap, cache, st, opts, stack, pc, ret, input, given, loads, stale,
               steps>>

Next ==
  \/ Enter
  \/ \E tree \in Docs, fom \in BOOLEAN : Deref(tree, fom)
  \/ DerefSchemaFail
  \/ DerefSchemaWalk
  \/ VisitCircular
  \/ VisitLocal
  \/ VisitCached
  \/ VisitNotFound
  \/ VisitLoad
  \/ LoadReturn
  \/ Return
  \/ Release
  \/ Touch

Spec == Init /\ [][Next]_vars

\* A step of the running call.  deref is synchronous: once called it runs
\* on, through every callback and every return, until it returns.
CallStep ==
  \/ DerefSchemaFail
  \/ DerefSchemaWalk
  \/ VisitCircular
  \/ VisitLocal
  \/ VisitCached
  \/ VisitNotFound
  \/ VisitLoad
  \/ LoadReturn
  \/ Return

(***************************************************************************)
(* What the properties speak of: the references of a document as written,  *)
(* their targets, and the graph they form.                                 *)
(***************************************************************************)
\* The reference nodes of a tree, a node before its children, children in
\* key order: [from |-> the node's path, to |-> its reference string].
RECURSIVE RefsOf(_, _)
RECURSIVE RefsOfKids(_, _, _)
RefsOfKids(tree, path, i) ==
  IF i > Len(tree.e) THEN <<>>
  ELSE RefsOf(tree.e[i].v, Append(path, tree.e[i].k)) \o RefsOfKids(tree, path, i + 1)

RefsOf(tree, path) ==
  IF tree.t # "tree" THEN <<>>
  ELSE (IF Get(tree.e, RefKey).t = "str"
        THEN <<[from |-> path, to |-> Get(tree.e, RefKey).s]>>
        ELSE <<>>)
       \o RefsOfKids(tree, path, 1)

\* The subtree at a path of keys, undefined when there is none.
RECURSIVE TreeAt(_, _)
TreeAt(tree, segs) ==
  IF Len(segs) = 0 THEN tree
  ELSE IF tree.t = "tree" /\ HasKey(tree.e, Head(segs))
       THEN TreeAt(Get(tree.e, Head(segs)), Tail(segs))
  ELSE Undef

\* The keys a pointer names: "#/a/b" and "/a/b" name <<a, b>>, "#" none.
PointerSegs(ptr) ==
  LET q == IF Len(ptr) > 0 /\ ptr[1] = "#" THEN Tail(ptr) ELSE ptr
      segs == Split(q, "/")
  IN  IF Head(segs) = <<>> THEN Tail(segs) ELSE segs

IsPrefix(p, q) == Len(p) <= Len(q) /\ SubSeq(q, 1, Len(p)) = p

\* Documents are named by their absolute path; the caller's document by the
\* empty path.
RootDoc == <<>>

DocTree(d, root) == IF d = RootDoc THEN root ELSE disk[d]

DocDir(d) == IF d = RootDoc THEN Cwd ELSE pathDirname(d)

\* Where the reference string `to`, written in document d, points:
\* [doc |-> the document, ptr |-> the keys inside it].
TargetOf(d, to) ==
  IF to[1] = "#" THEN [doc |-> d, ptr |-> PointerSegs(to)]
  ELSE [doc |-> pathResolve(DocDir(d), getRefFilePath(to)),
        ptr |-> IF IndexOf(to, "#") > 0
                THEN PointerSegs(SubstringFrom(to, IndexOf(to, "#") - 1))
                ELSE <<>>]

\* The target exists: the document does, and the pointer leads somewhere.
TargetExists(t, root) ==
  /\ t.doc = RootDoc \/ t.doc \in DOMAIN disk
  /\ TreeAt(DocTree(t.doc, root), t.ptr).t # "undef"

\* A reference, as a node of the graph: the document it is written in, its
\* path there and its string.
RefsIn(d, root) ==
  LET refs == RefsOf(DocTree(d, root), <<>>)
  IN  {[doc |-> d, from |-> refs[i].from, to |-> refs[i].to] : i \in 1..Len(refs)}

\* The references found at or below the target of reference n: the ones
\* that resolving n leads to.
NextRefs(n, root) ==
  LET t == TargetOf(n.doc, n.to)
  IN  IF TargetExists(t, root)
      THEN {m \in RefsIn(t.doc, root) : IsPrefix(t.ptr, m.from)}
      ELSE {}

RECURSIVE RefClosure(_, _)
\* Every reference that resolving the references S leads to, S included.
RefClosure(S, root) ==
  LET S2 == S \cup UNION {NextRefs(n, root) : n \in S}
  IN  IF S2 = S THEN S ELSE RefClosure(S2, root)

\* The references reached from the caller's document.
AllRefs(root) == RefClosure(RefsIn(RootDoc, root), root)

\* Resolving n leads back to n.
OnCycle(n, root) == n \in RefClosure(NextRefs(n, root), root)

\* Every reference reached from the caller's document has a target.
AllResolvable(root) ==
  \A n \in AllRefs(root) : TargetExists(TargetOf(n.doc, n.to), root)

\* No reference reached from the caller's document leads back to itself.
Acyclic(root) == \A n \in AllRefs(root) : ~OnCycle(n, root)

\* The local references of the caller's document form a cycle.
LocalRefsIn(root) == {n \in RefsIn(RootDoc, root) : n.to[1] = "#"}

RECURSIVE LocalClosure(_, _)
LocalClosure(S, root) ==
  LET S2 == S \cup (UNION {NextRefs(n, root) : n \in S} \cap LocalRefsIn(root))
  IN  IF S2 = S THEN S ELSE LocalClosure(S2, root)

LocalCycle(root) ==
  \E n \in LocalRefsIn(root) :
    n \in LocalClosure(NextRefs(n, root) \cap LocalRefsIn(root), root)

IsCircularError(v) ==
  /\ v.t = "err"
  /\ v.m \in {"Circular self reference", "Circular self reference from",
              "circular references found"}

IsMissingError(v) == v.t = "err" /\ v.m = "Missing $ref"

\* deref has returned.
Returned == pc = "done"

\* deref returned a document, not an Error.
ReturnedDoc == pc = "done" /\ ret.t # "err"

NoDuplicates(q) == \A i, j \in 1..Len(q) : q[i] = q[j] => i = j

(***************************************************************************)
(* Properties                                                              *)
(***************************************************************************)
\* C1: a document with no string-valued $ref anywhere comes back as a
\* document structurally equal to the one passed in, whatever earlier calls
\* left in the cache.
C1_NoRefIsIdentity ==
  (Returned /\ ~HasRef(given)) => (ret.t = "obj" /\ Doc(heap, ret) = given)

\* A document with a nested object and no reference was returned by a call
\* made after an earlier call had filled the cache.
C1_Witness ==
  /\ Returned /\ stale /\ ~HasRef(given)
  /\ \E i \in 1..Len(given.e) : given.e[i].v.t = "tree"
  /\ ret.t = "obj"

\* C2: when the local references of the caller's document form a cycle (a
\* reference to '#', references pointing at each other, or references below
\* /a and /b pointing at /b and /a), deref returns a circular-reference
\* Error and never a document.
C2_LocalCycleIsError ==
  (Returned /\ LocalCycle(given)) => IsCircularError(ret)

\* C3: when every reference reached from the caller's document can be
\* resolved and none leads back to itself, deref returns a document with no
\* string-valued $ref left anywhere in it.
C3_FullyResolved ==
  (Returned /\ AllResolvable(given) /\ Acyclic(given)) =>
    (ret.t # "err" /\ ~HasRef(Doc(heap, ret)))

RECURSIVE MeetsRef(_, _)
\* Following the keys `segs` from the tree arrives at a reference node
\* before the keys run out.
MeetsRef(tree, segs) ==
  /\ Len(segs) > 0
  /\ tree.t = "tree"
  /\ \/ Get(tree.e, RefKey).t = "str"
     \/ /\ HasKey(tree.e, Head(segs))
        /\ MeetsRef(Get(tree.e, Head(segs)), Tail(segs))

\* The reference nodes of the caller's document that cannot be resolved, in
\* traversal order: the file is not there, or the pointer names a key that
\* is not there (and not one that lies behind another reference).
Unresolvable(root) ==
  SelectSeq(RefsOf(root, <<>>),
            LAMBDA r :
              LET t == TargetOf(RootDoc, r.to)
              IN  /\ ~TargetExists(t, root)
                  /\ t.doc = RootDoc => ~MeetsRef(root, t.ptr))

\* C4: with failOnMissing unset, a call on a document without cycles that
\* has references with no target returns a document in which each such
\* reference node is as it was, and state.missing holds its reference
\* string when the call returns.
C4_MissingIsKept ==
  (Returned /\ ~opts.failOnMissing /\ Acyclic(given)) =>
    \A i \in 1..Len(Unresolvable(given)) :
      LET r == Unresolvable(given)[i]
      IN  /\ ret.t # "err"
          /\ Doc(heap, WalkPath(heap, ret, r.from)) = TreeAt(given, r.from)
          /\ InSeq(st.missing, r.to)

\* C5: with failOnMissing true, a call on a document without cycles that
\* has references with no target returns a `Missing $ref` Error naming the
\* first of them in traversal order.
C5_FirstMissingIsNamed ==
  (Returned /\ opts.failOnMissing /\ Acyclic(given)
     /\ Len(Unresolvable(given)) > 0) =>
    (IsMissingError(ret) /\ ret.r = <<Unresolvable(given)[1].to>>)

C7_CacheIsPerCall ==
  pc \in {"run", "done"} =>
    \A i \in 1..Len(cache) :
      /\ InSeq(loads, cache[i].k)
      /\ cache[i].k \in DOMAIN disk
      /\ \A j \in 1..Len(disk[cache[i].k].e) :
           LET e == disk[cache[i].k].e[j]
           IN  (cache[i].v.t = "obj" /\ e.v.t = "num") =>
                 Prop(heap, cache[i].v, e.k) = e.v

\* A second call, made after the file f changed, loaded f again and
\* returned its new content.
C7_Witness ==
  /\ Returned /\ stale /\ disk = Disk(0)
  /\ InSeq(loads, <<"/", "f">>)
  /\ given = Tree(<<Ent(A, RefNode(<<"f">>)), Ent(B, Num(1))>>)
  /\ Doc(heap, ret) = Tree(<<Ent(A, Tree(<<Ent(Z, Num(0)), Ent(B, Num(0))>>)),
                              Ent(B, Num(1))>>)

\* C8: the caller's document is never changed: during the call and after
\* it, it is the document that was passed in.
C8_InputUnchanged ==
  pc \in {"run", "done"} => Doc(heap, input) = given

\* A call replaced a reference node in its result, and the caller's
\* document still has it.
C8_Witness ==
  /\ ReturnedDoc /\ HasRef(given)
  /\ Doc(heap, ret) # given
  /\ Doc(heap, input) = given

\* The objects at or below a value.
ObjectsOf(h, v) ==
  LET q == Reach(h, <<v>>, <<>>) IN {q[i] : i \in 1..Len(q)}

\* The positions below the value v (v's own included) that hold the object
\* id: <<0, 0>> for v's own, <<p, i>> for entry i of object p.
PositionsOf(h, v, id) ==
  (IF v = Obj(id) THEN {<<0, 0>>} ELSE {})
    \cup {pos \in UNION {{<<p, i>> : i \in 1..Len(h[p])} : p \in ObjectsOf(h, v)} :
            h[pos[1]][pos[2]].v = Obj(id)}

\* C9: in a returned document no object stands at two positions, and no
\* object of it is an object of a cache entry: what replaced a reference is
\* a copy.
C9_NoSharing ==
  ReturnedDoc =>
    /\ \A id \in ObjectsOf(heap, ret) :
         Cardinality(PositionsOf(heap, ret, id)) <= 1
    /\ \A i \in 1..Len(cache) :
         ObjectsOf(heap, ret) \cap ObjectsOf(heap, cache[i].v) = {}

\* Some external document reached from the caller's document holds a
\* reference that leads back to a reference of that document.
CrossDocumentCycle(root) ==
  \E n \in AllRefs(root) : n.doc # RootDoc /\ OnCycle(n, root)

\* C10: when references cross documents and come back to an external
\* document that is being resolved (A refers to B and B to A, or a file
\* refers to itself), and the call has met the cycle, deref returns a
\* circular-reference Error.
C10_CrossDocumentCycleIsError ==
  (Returned /\ CrossDocumentCycle(given) /\ st.circular) => IsCircularError(ret)

IsRefTree(tree) == tree.t = "tree" /\ Get(tree.e, RefKey).t = "str"

RECURSIVE ValueOf(_, _, _, _)
\* The value the reference string `to`, written in document d, stands for:
\* what is at its target, and when that is a reference node again, what
\* that one stands for (followed through at most `fuel` references).
ValueOf(d, to, root, fuel) ==
  LET t == TargetOf(d, to)
      v == IF TargetExists(t, root) THEN TreeAt(DocTree(t.doc, root), t.ptr)
           ELSE Undef
  IN  IF IsRefTree(v) /\ fuel > 0
      THEN ValueOf(t.doc, Get(v.e, RefKey).s, root, fuel - 1)
      ELSE v

IsScalar(v) == v.t \in {"num", "bool", "str", "null"}

\* The reference nodes of the caller's document that point straight at a
\* scalar of their document, or into a file at a path that holds a scalar
\* once the file is resolved.
ScalarRefs(root) ==
  SelectSeq(RefsOf(root, <<>>),
            LAMBDA r :
              /\ IsScalar(ValueOf(RootDoc, r.to, root, 3))
              /\ \/ IsScalar(TreeAt(root, TargetOf(RootDoc, r.to).ptr))
                      /\ TargetOf(RootDoc, r.to).doc = RootDoc
                 \/ TargetOf(RootDoc, r.to).doc # RootDoc)

\* C11: a reference whose pointer path exists is replaced by the value at
\* that path whatever the value is, 0 included, for local references and
\* for references into a file alike, and is not recorded as missing.  Stated
\* for calls that return a document, on documents whose references all have
\* targets and form no cycle.
C11_FalsyIsSubstituted ==
  (ReturnedDoc /\ ~st.circular /\ AllResolvable(given) /\ Acyclic(given)) =>
    \A i \in 1..Len(ScalarRefs(given)) :
      LET r == ScalarRefs(given)[i]
      IN  /\ WalkPath(heap, ret, r.from) = ValueOf(RootDoc, r.to, given, 3)
          /\ ~InSeq(st.missing, r.to)

\* The call has failed: a cycle was met or an Error was recorded.
Failed == st.circular \/ Truthy(st.error)

\* C12: once state.circular is true or state.error is set, the rest of the
\* call invokes no loader and replaces no node: no step of a failed call
\* adds to the loads or changes a field of an object.
C12_NoSubstitutionAfterFailure ==
  [][(pc = "run" /\ Failed) =>
       /\ loads' = loads
       /\ \A id \in 1..Len(heap) : heap'[id] = heap[id]]_vars

\* Some static pass found a cycle in a document that exists: the caller's
\* document has a local cycle, or a file reached from it holds a reference
\* to '#'.
StaticCycle(root) ==
  \/ LocalCycle(root)
  \/ \E n \in AllRefs(root) : n.doc # RootDoc /\ n.to = <<"#">>

\* C13: when a cycle check fails (the static pass on the caller's document
\* or on a loaded file, or the history check), deref returns an Error: it
\* does not return a document, least of all one that holds an Error value
\* in place of a reference node, and no cache entry is an Error.
C13_CycleIsFatal ==
  (Returned /\ (st.circular \/ StaticCycle(given))) =>
    /\ ret.t = "err"
    /\ \A i \in 1..Len(cache) : cache[i].v.t # "err"

\* The traversal of the caller's document is in the callback, on a local
\* reference.
RootLocalLookup ==
  /\ InCallback
  /\ CurDeref(stack) = 1
  /\ CbRefType = "local"

\* C14: a local reference is looked up in the document as it was written,
\* not in the working copy as earlier substitutions have left it: what the
\* lookup in the traversal of the caller's document yields is what is at
\* that pointer in the document passed in.
C14_LookupInOriginal ==
  RootLocalLookup =>
    Doc(heap, getRefPathValue(heap, CbSchema, CbRefVal))
      = TreeAt(given, PointerSegs(CbRefVal))

\* The local references left in a tree whose pointer leads somewhere in the
\* document `orig`.
ResolvableLocals(tree, orig) ==
  SelectSeq(RefsOf(tree, <<>>),
            LAMBDA r : /\ r.to[1] = "#"
                       /\ TreeAt(orig, PointerSegs(r.to)).t # "undef")

\* C15: every cache entry is a document that was resolved before it was
\* stored: it is not an Error, and it holds no local reference whose
\* pointer leads somewhere in the file it was loaded from.
C15_CacheHoldsResolvedDocuments ==
  \A i \in 1..Len(cache) :
    /\ cache[i].v.t = "obj"
    /\ cache[i].k \in DOMAIN disk
    /\ Len(ResolvableLocals(Doc(heap, cache[i].v), disk[cache[i].k])) = 0

\* The objects of the working copy of the caller's document: deref starts
\* on an empty heap, the caller's document takes the first objects and its
\* clone the next ones; the objects of loaded files come after.
OwnObjects ==
  LET n == Len(Build(<<>>, given).h) IN (n + 1)..(2 * n)

\* C16: a reference written in a loaded file is resolved in the context of
\* that file only: the traversal of the caller's document (pointers looked
\* up in its tree, paths resolved against its directory) never runs the
\* callback on a reference node that came out of a file.  Stated for calls
\* that have not failed.
C16_FileReferencesStayInFile ==
  (InCallback /\ CurDeref(stack) = 1 /\ ~Failed) => Top.node.id \in OwnObjects

\* The root of the working document of the running call: what the
\* traversal of the caller's document will return.
WorkRoot ==
  IF stack[1].phase = "ret" THEN stack[1].val
  ELSE IF Len(stack) > 1 THEN stack[2].node
  ELSE stack[1].schema

\* Some reference node of the tree carries the reference string.
Carries(tree, refVal) ==
  \E i \in 1..Len(RefsOf(tree, <<>>)) : RefsOf(tree, <<>>)[i].to = refVal

\* C17: state.missing lists the reference strings of the nodes left
\* unresolved: no step of a call takes a string off the list while a
\* reference node carrying it is still in the working document.  Stated for
\* the strings of the references of the caller's document that cannot be
\* resolved.
C17_MissingIsNeverDropped ==
  [][(pc = "run" /\ pc' = "run") =>
       \A i \in 1..Len(Unresolvable(given)) :
         LET refVal == Unresolvable(given)[i].to
         IN  (InSeq(st.missing, refVal) /\ ~InSeq(st'.missing, refVal)) =>
               ~Carries(Doc(heap', WorkRoot'), refVal)]_vars

\* The running call is at a point where one of the disjuncts of CallStep
\* applies: derefSchema is entered (DerefSchemaFail or DerefSchemaWalk), the
\* callback is on a reference node (one of the five Visit steps, whose guards
\* cover every case), or derefSchema has returned (LoadReturn or Return).
Runnable ==
  /\ Len(stack) > 0
  /\ \/ Top.kind = "deref" /\ Top.phase \in {"enter", "ret"}
     \/ InCallback /\ IsRefNode(heap, Top.node)

\* C18: every call of deref terminates: a running call can always take
\* its next step, and it returns before it has taken MaxSteps steps.
C18_Terminates ==
  pc = "run" => (steps < MaxSteps /\ Runnable)

\* A call returned a document that holds an object inside itself: the
\* traversal met a cyclic object graph and came to an end.
C18_Witness ==
  /\ ReturnedDoc
  /\ ret.t = "obj"
  /\ TreeHas(Doc(heap, ret), "cyclic")

\* C19: state.current is restored after an external reference node: a
\* step of the callback that finishes a file reference node (its document
\* was in the cache, or was not found, or the history refused it) leaves
\* state.current as it was before the node was processed.
C19_CurrentIsRestored ==
  [][(/\ InCallback
      /\ CbRefType = "file"
      /\ Len(stack') > 0
      /\ ~(stack'[Len(stack')].kind = "deref" /\ stack'[Len(stack')].phase = "enter"))
       => st'.current = st.current]_vars

\* C20: deref reports no circular reference for an acyclic input: when no
\* reference reached from the caller's document leads back to itself (files
\* told apart by their absolute paths; a reference inside its own target
\* leads back to itself), deref does not return a circular-reference Error,
\* the history check has not refused a reference, and no static pass on a
\* loaded file has left a circular-reference Error in the cache.
C20_NoFalseCircular ==
  (Returned /\ Acyclic(given)) =>
    /\ ~IsCircularError(ret)
    /\ ~st.circular
    /\ \A i \in 1..Len(cache) : ~IsCircularError(cache[i].v)

====
